---------------------------- MODULE Spec2Model ----------------------------
(***************************************************************************)
(* Model of the DCN collector service                                      *)
(* (dcn_project/services/collector/src/main.py): the metric collectors,    *)
(* the Kafka producer manager and the CollectorService cadence loop.       *)
(*                                                                         *)
(* Time is the wall clock in seconds (time.time()); metric timestamps are  *)
(* the same clock in milliseconds.  External calls (the collectors'        *)
(* sub-queries, the broker behind the Kafka producer) are the environment: *)
(* each returns, raises or never returns.                                  *)
(***************************************************************************)
EXTENDS Integers, Sequences, FiniteSets, TLC

VARIABLES
    config,       \* CollectorService.config, immutable after construction
    collectors,   \* CollectorService.collectors: registered collector names, in order
    running,      \* CollectorService.running
    pc,           \* position of run(): Idle, Collecting, Publishing, Sleeping, Stopped
    cycle,        \* number of cycles started so far
    now,          \* wall clock, seconds
    start_time,   \* run(): start_time of the current cycle
    task,         \* per collector: the collect() coroutine of the current cycle
    all_metrics,  \* collect_and_send(): all_metrics of the current cycle
    queue,        \* Producer: records produced and not yet reported delivered/failed
    send_calls,   \* the metrics arguments of this cycle's send_metrics calls
    send_state,   \* how far this cycle's send_metrics call got, and how it ended
    prev_failed,  \* whether the preceding cycle's send failed
    sleep_for,    \* argument of the asyncio.sleep that ends the cycle
    log,          \* log records emitted in the current cycle, counted per kind
    metric_count, \* run(): metric_count, what collect_and_send returned in this pass
    stop_called,  \* whether stop() has ever been called on the service
    fm_call,      \* format_metric called on its own: the arguments of the call
    fm_metric,    \* format_metric called on its own: the dict returned
    request_count, \* app.py: the module global request_count
    error_count,  \* app.py: the module global error_count
    handlers,     \* app.py: per worker thread, the request it is handling
    served,       \* app.py: responses sent so far, counted per kind
    db_pool,      \* api/main.py: the module global db_pool
    redis_client, \* api/main.py: the module global redis_client
    created,      \* api/main.py: pools and clients created so far, per kind
    callers       \* api/main.py: per coroutine, its call of get_db_pool / get_redis_client

\* the variables of the collector service
collector_vars ==
    <<config, collectors, running, pc, cycle, now, start_time, task, all_metrics,
      queue, send_calls, send_state, prev_failed, sleep_for, log, metric_count,
      stop_called>>

\* the variables of a format_metric call made on its own
fm_vars == <<fm_call, fm_metric>>

\* the variables of the Flask application
flask_vars == <<request_count, error_count, handlers, served>>

\* the variables of the API service
api_vars == <<db_pool, redis_client, created, callers>>

\* the variables of the programs beside the collector service
other_vars == <<fm_vars, flask_vars, api_vars>>

vars == <<collector_vars, other_vars>>

-----------------------------------------------------------------------------
(* Bounds of the model *)

\* the largest timestamp, in milliseconds, a caller passes to format_metric
MaxTimestamp == 3
\* requests the Flask application accepts
MaxRequests == 3
\* worker threads of the Flask application
MaxThreads == 2
\* request coroutines of the API service
MaxCallers == 2
\* cycles run() may start
MaxCycles == 2
\* the clock advances second by second up to this time while gather waits;
\* beyond it time passes only in sleeps and flush timeouts
MaxTime == 1
\* records the producer's local queue holds before produce raises BufferError
\* (librdkafka's queue.buffering.max.messages, scaled down)
QueueCapacity == 30

(* Program constants *)

\* asyncio.sleep(10) after a failed cycle
RetrySleep == 10
\* producer.flush(timeout=10)
FlushTimeout == 10
\* config.get('timeout', 30)
DefaultTimeout == 30
\* config.get('poll_interval', 60)
DefaultPollInterval == 60

CollectorNames == <<"ontap", "storagegrid", "generic">>
NameSet == {CollectorNames[i] : i \in 1..Len(CollectorNames)}

Max(a, b) == IF a >= b THEN a ELSE b

\* the elements of a sequence
Range(s) == {s[i] : i \in 1..Len(s)}

-----------------------------------------------------------------------------
(* Configuration.  A dict key that may be missing is a sequence of length  *)
(* 0 (missing) or 1 (present).                                             *)

\* dict.get(key, default)
Get(opt, default) == IF opt = <<>> THEN default ELSE opt[1]

\* the 'clusters' / 'grids' / 'sources' list of a collector's entry (the names)
TargetsOf(name) ==
    CASE name = "ontap"       -> <<"prod-cluster-01">>
      [] name = "storagegrid" -> <<"grid-01">>
      [] name = "generic"     -> <<"src-01">>

\* how a configuration says that a collector is not enabled: enabled False,
\* no 'enabled' key, or no entry for the collector at all
DisabledForms == {"false", "unset", "absent"}

\* config['collectors'][name]: on is whether the entry has enabled True, form
\* the shape of an entry that has not, full whether an enabled collector has
\* something to query
CollectorEntry(name, on, form, full) ==
    IF ~on /\ form = "absent" THEN <<>>
    ELSE << [enabled |-> IF on THEN <<TRUE>>
                         ELSE IF form = "false" THEN <<FALSE>> ELSE <<>>,
             timeout |-> <<1>>,
             targets |-> IF full THEN TargetsOf(name) ELSE <<>>] >>

\* config['poll_interval']: a number of seconds, a missing key, or a value
\* that is not a number (None)
Seconds(n) == << [type |-> "int", val |-> n] >>
NoPollInterval == <<>>
NonePollInterval == << [type |-> "NoneType", val |-> 0] >>

MakeConfig(p, on, form, full) ==
    [poll_interval |-> p,
     collectors |-> [n \in NameSet |-> CollectorEntry(n, n \in on, form, full)]]

\* cfg with the 'clusters' / 'grids' / 'sources' list of collector n replaced
WithTargets(cfg, n, targets) ==
    [cfg EXCEPT !.collectors[n] = << [@[1] EXCEPT !.targets = targets] >>]

\* lists of two entries: two different names, and the same name twice
TwoSources == {<<"src-01", "src-02">>, <<"src-01", "src-01">>}

\* The configurations tried.  With a cadence of one second: the generic
\* collector with two sources; every set of enabled collectors but those with
\* ONTAP and another collector together (ONTAP runs four sub-queries per
\* cluster, StorageGRID two per grid, the generic collector one per source);
\* every set of enabled collectors with nothing to query; the other shapes of
\* "not enabled" with at most one collector enabled.  With the other
\* cadences: at most one collector enabled.
Configs ==
    {WithTargets(MakeConfig(Seconds(1), {"generic"}, "false", TRUE), "generic", ts) :
        ts \in TwoSources}
    \cup {MakeConfig(Seconds(1), on, "false", TRUE) :
            on \in {x \in SUBSET NameSet : "ontap" \in x => x = {"ontap"}}}
    \cup {MakeConfig(Seconds(1), on, "unset", FALSE) : on \in SUBSET NameSet}
    \cup {MakeConfig(Seconds(1), on, form, TRUE) :
            on \in {{}, {"storagegrid"}, {"generic"}}, form \in DisabledForms}
    \cup {MakeConfig(p, on, "false", TRUE) :
            p \in {NoPollInterval, NonePollInterval},
            on \in {{}, {"storagegrid"}, {"generic"}}}

-----------------------------------------------------------------------------
(* Metrics *)

\* concatenation of a sequence of sequences (list.extend in a loop)
RECURSIVE ConcatAll(_)
ConcatAll(ss) ==
    IF ss = <<>> THEN <<>> ELSE Head(ss) \o ConcatAll(Tail(ss))

\* int(time.time() * 1000)
WallMillis(t) == t * 1000

\* a metric stamped with its own name in place of the collector's
format_metric_names_itself(self, name, value, labels, timestamp, t) ==
    [name      |-> name,
     value     |-> value,
     labels    |-> labels,
     timestamp |-> IF timestamp = <<>> \/ timestamp[1] = 0
                   THEN WallMillis(t) ELSE timestamp[1],
     collector |-> name]

\* MetricCollector.format_metric; timestamp is <<>> when the caller passes none
format_metric(self, name, value, labels, timestamp, t) ==
    [name      |-> name,
     value     |-> value,
     labels    |-> labels,
     timestamp |-> IF timestamp = <<>> \/ timestamp[1] = 0
                   THEN WallMillis(t) ELSE timestamp[1],
     collector |-> self]

Nodes == <<"node-01", "node-02", "node-03">>
Aggregates == <<"aggr1", "aggr2", "aggr3">>
Operations == <<"GET", "PUT", "DELETE", "LIST">>

\* ONTAPCollector._collect_iops
collect_iops(self, cluster_name, t) ==
    ConcatAll([i \in 1..Len(Nodes) |->
        << format_metric(self, "dcn_storage_iops_total", "1500.0",
               [cluster |-> cluster_name, node |-> Nodes[i], type |-> "read"], <<>>, t),
           format_metric(self, "dcn_storage_iops_total", "800.0",
               [cluster |-> cluster_name, node |-> Nodes[i], type |-> "write"], <<>>, t) >>])

\* ONTAPCollector._collect_latency
collect_latency(self, cluster_name, t) ==
    ConcatAll([i \in 1..Len(Nodes) |->
        << format_metric(self, "dcn_storage_latency_milliseconds", "2.5",
               [cluster |-> cluster_name, node |-> Nodes[i], operation |-> "read"], <<>>, t),
           format_metric(self, "dcn_storage_latency_milliseconds", "3.2",
               [cluster |-> cluster_name, node |-> Nodes[i], operation |-> "write"], <<>>, t) >>])

\* ONTAPCollector._collect_throughput
collect_throughput(self, cluster_name, t) ==
    [i \in 1..Len(Nodes) |->
        format_metric(self, "dcn_storage_throughput_bytes_per_second", "104857600.0",
            [cluster |-> cluster_name, node |-> Nodes[i]], <<>>, t)]

\* ONTAPCollector._collect_capacity
collect_capacity(self, cluster_name, t) ==
    ConcatAll([i \in 1..Len(Aggregates) |->
        << format_metric(self, "dcn_storage_capacity_bytes", "10995116277760.0",
               [cluster |-> cluster_name, aggregate |-> Aggregates[i], type |-> "total"], <<>>, t),
           format_metric(self, "dcn_storage_capacity_bytes", "5497558138880.0",
               [cluster |-> cluster_name, aggregate |-> Aggregates[i], type |-> "used"], <<>>, t) >>])

\* StorageGRIDCollector._collect_s3_metrics
collect_s3_metrics(self, grid_name, t) ==
    [i \in 1..Len(Operations) |->
        format_metric(self, "dcn_storagegrid_s3_operations_total", "15000.0",
            [grid |-> grid_name, operation |-> Operations[i]], <<>>, t)]

\* StorageGRIDCollector._collect_grid_capacity
collect_grid_capacity(self, grid_name, t) ==
    << format_metric(self, "dcn_storagegrid_capacity_bytes", "549755813888000.0",
           [grid |-> grid_name, type |-> "total"], <<>>, t),
       format_metric(self, "dcn_storagegrid_capacity_bytes", "274877906944000.0",
           [grid |-> grid_name, type |-> "used"], <<>>, t) >>

\* GenericCollector._collect_from_source; the name is f"dcn_{source}_metric"
collect_from_source(self, source_name, t) ==
    << format_metric(self, "dcn_" \o source_name \o "_metric", "100.0",
           [source |-> source_name], <<>>, t) >>

\* the awaited sub-queries of one collect() call, in program order
SubQueries(self, targets) ==
    ConcatAll([i \in 1..Len(targets) |->
        CASE self = "ontap" ->
               << [kind |-> "iops", target |-> targets[i]],
                  [kind |-> "latency", target |-> targets[i]],
                  [kind |-> "throughput", target |-> targets[i]],
                  [kind |-> "capacity", target |-> targets[i]] >>
          [] self = "storagegrid" ->
               << [kind |-> "s3", target |-> targets[i]],
                  [kind |-> "grid_capacity", target |-> targets[i]] >>
          [] self = "generic" ->
               << [kind |-> "source", target |-> targets[i]] >>])

\* what one sub-query returns when its external call succeeds at time t
SubQueryMetrics(self, sq, t) ==
    CASE sq.kind = "iops"          -> collect_iops(self, sq.target, t)
      [] sq.kind = "latency"       -> collect_latency(self, sq.target, t)
      [] sq.kind = "throughput"    -> collect_throughput(self, sq.target, t)
      [] sq.kind = "capacity"      -> collect_capacity(self, sq.target, t)
      [] sq.kind = "s3"            -> collect_s3_metrics(self, sq.target, t)
      [] sq.kind = "grid_capacity" -> collect_grid_capacity(self, sq.target, t)
      [] sq.kind = "source"        -> collect_from_source(self, sq.target, t)

-----------------------------------------------------------------------------
(* Collector instances *)

\* registration that reads a missing 'enabled' key as True
init_collectors_default_on(cfg) ==
    SelectSeq(CollectorNames,
              LAMBDA n : cfg.collectors[n] # <<>> /\ Get(cfg.collectors[n][1].enabled, TRUE))

\* CollectorService._init_collectors: registration order is fixed by the code
init_collectors(cfg) ==
    SelectSeq(CollectorNames,
              LAMBDA n : Get(Get(cfg.collectors[n], [enabled |-> <<>>]).enabled, FALSE))

\* a collector that counts as enabled only when it has something to query
collector_enabled_with_targets(cfg, n) ==
    Get(cfg.collectors[n][1].enabled, TRUE) /\ cfg.collectors[n][1].targets # <<>>

\* MetricCollector.__init__: self.enabled
collector_enabled(cfg, n) == Get(cfg.collectors[n][1].enabled, TRUE)

\* MetricCollector.__init__: self.timeout
collector_timeout(cfg, n) == Get(cfg.collectors[n][1].timeout, DefaultTimeout)

\* the collectors collect_and_send dispatches, in order
Dispatched(cfg, regs) == SelectSeq(regs, LAMBDA n : collector_enabled(cfg, n))

\* the sub-queries of collector n under cfg
Plan(cfg, n) == SubQueries(n, cfg.collectors[n][1].targets)

\* the except clause returning the list gathered so far instead of []
except_result_keeps(metrics) == metrics

\* what collect() returns from its except clause, metrics being the list
\* gathered so far: return []
except_result(metrics) == <<>>

NoTask == [state |-> "none", idx |-> 0, metrics |-> <<>>, result |-> <<>>]
NewTask == [state |-> "running", idx |-> 0, metrics |-> <<>>, result |-> <<>>]

-----------------------------------------------------------------------------
(* Log records of one cycle, counted per kind *)

NoLog ==
    [collect_error   |-> [n \in NameSet |-> 0],  \* "Error collecting ... metrics"
     collector_error |-> [n \in NameSet |-> 0],  \* "Collector error"
     send_error      |-> 0,                      \* "Error sending metrics to Kafka"
     delivery_failed |-> 0,                      \* "Message delivery failed"
     sent            |-> 0,                      \* "Collected and sent N metrics"
     no_metrics      |-> 0,                      \* "No metrics collected"
     cycle_completed |-> 0,                      \* "Collection cycle completed"
     cycle_error     |-> 0]                      \* "Error in collection cycle"

-----------------------------------------------------------------------------
(* Publisher *)

\* str.encode('utf-8')
utf8(x) == [utf8 |-> x]

\* json.dumps of a metric dict: the members in insertion order
json_dumps(m) ==
    << <<"name", m.name>>, <<"value", m.value>>, <<"labels", m.labels>>,
       <<"timestamp", m.timestamp>>, <<"collector", m.collector>> >>

\* config.get('kafka_topic', 'dcn-metrics')
kafka_topic == "dcn-metrics"

\* a record keyed by the collector in place of the metric's name
ProduceRecord_keyed_by_collector(topic, m) ==
    [topic |-> topic, key |-> utf8(m.collector), value |-> utf8(json_dumps(m))]

\* the arguments of one producer.produce call
ProduceRecord(topic, m) ==
    [topic |-> topic, key |-> utf8(m.name), value |-> utf8(json_dumps(m))]

\* how many produce calls of a batch of n succeed before the local queue is full
Accepted(q, n) == IF Len(q) + n <= QueueCapacity THEN n ELSE Max(0, QueueCapacity - Len(q))

\* the records at the head of the queue that go to the broker as one batch:
\* the leading records with the same key (partition)
RECURSIVE HeadBatchLen(_)
HeadBatchLen(q) ==
    IF Len(q) <= 1 THEN Len(q)
    ELSE IF q[2].key = q[1].key THEN 1 + HeadBatchLen(Tail(q)) ELSE 1

-----------------------------------------------------------------------------------------------------------------------------------------------------
(* State machine *)

\* format_metric is not being called on its own
FmIdle == fm_call = <<>> /\ fm_metric = <<>>

\* the Flask application and the API service before they are started
FlaskIdle ==
    /\ request_count = 0
    /\ error_count = 0
    /\ handlers = <<>>
    /\ served = <<>>

ApiIdle ==
    /\ db_pool = <<>>
    /\ redis_client = <<>>
    /\ created = <<>>
    /\ callers = <<>>

OthersIdle == FmIdle /\ FlaskIdle /\ ApiIdle

\* the state after CollectorService.__init__
Init ==
    /\ config \in Configs
    /\ collectors = init_collectors(config)
    /\ running = FALSE
    /\ pc = "Idle"
    /\ cycle = 0
    /\ now = 0
    /\ start_time = 0
    /\ task = [n \in NameSet |-> NoTask]
    /\ all_metrics = <<>>
    /\ queue = <<>>
    /\ send_calls = <<>>
    /\ send_state = "none"
    /\ prev_failed = FALSE
    /\ sleep_for = 0
    /\ log = NoLog
    /\ metric_count = <<>>
    /\ stop_called = FALSE
    /\ OthersIdle

\* the send of the current cycle failed: produce raised, flush timed out with
\* records still queued, or the broker reported a record as failed
SendFailed ==
    \/ send_state \in {"produce_raised", "flush_timeout"}
    \/ log.delivery_failed > 0

\* the accumulator surviving from the preceding cycle
stale_batch == all_metrics

\* collect_and_send: all_metrics = []
fresh_batch == <<>>

\* run(): one pass of the loop body up to the await of gather, at time t:
\* start_time is read, collect_and_send creates one task per enabled collector
StartCycle(t) ==
    /\ cycle < MaxCycles
    /\ cycle' = cycle + 1
    /\ start_time' = t
    /\ all_metrics' = fresh_batch
    /\ task' = [n \in NameSet |->
                  IF n \in Range(Dispatched(config, collectors)) THEN NewTask ELSE NoTask]
    /\ send_calls' = <<>>
    /\ send_state' = "none"
    /\ prev_failed' = SendFailed
    /\ sleep_for' = 0
    /\ log' = NoLog
    /\ metric_count' = <<>>
    /\ pc' = "Collecting"

\* run() is entered: running is set and the first cycle starts
Run ==
    /\ pc = "Idle"
    /\ running' = TRUE
    /\ StartCycle(now)
    /\ UNCHANGED <<other_vars, stop_called, config, collectors, now, queue>>

\* a stop that cancels what run() is waiting for and ends it at once
Stop_cancels ==
    /\ pc \in {"Collecting", "Publishing", "Sleeping"}
    /\ running
    /\ running' = FALSE
    /\ stop_called' = TRUE
    /\ pc' = "Stopped"
    /\ task' = [n \in NameSet |->
                  IF task[n].state \in {"running", "hung"} THEN NoTask ELSE task[n]]
    /\ UNCHANGED <<other_vars, metric_count, config, collectors, cycle, now, start_time, all_metrics,
                   queue, send_calls, send_state, prev_failed, sleep_for, log>>

\* stop()
Stop ==
    /\ pc \in {"Collecting", "Publishing", "Sleeping"}
    /\ running
    /\ running' = FALSE
    /\ stop_called' = TRUE
    /\ UNCHANGED <<other_vars, metric_count, config, collectors, pc, cycle, now, start_time, task, all_metrics,
                   queue, send_calls, send_state, prev_failed, sleep_for, log>>

\* stop() called on the service before run() has been entered: running is
\* False already and stays so
StopBeforeRun ==
    /\ pc = "Idle"
    /\ ~stop_called
    /\ running' = FALSE
    /\ stop_called' = TRUE
    /\ UNCHANGED <<other_vars, metric_count, config, collectors, pc, cycle, now, start_time,
                   task, all_metrics, queue, send_calls, send_state, prev_failed,
                   sleep_for, log>>

\* a second passes while gather waits for a collector
Tick ==
    /\ pc = "Collecting"
    /\ \E n \in NameSet : task[n].state \in {"running", "hung"}
    /\ now < MaxTime
    /\ now' = now + 1
    /\ UNCHANGED <<other_vars, stop_called, metric_count, config, collectors, running, pc, cycle, start_time, task, all_metrics,
                   queue, send_calls, send_state, prev_failed, sleep_for, log>>

\* collectors awaited one after the other: collect() of n goes on only when
\* every collector registered before it has settled
SubQueryReturns_sequential(n) ==
    /\ pc = "Collecting"
    /\ task[n].state = "running"
    /\ task[n].idx < Len(Plan(config, n))
    /\ \A i \in 1..Len(collectors) :
          (\E j \in 1..Len(collectors) : i < j /\ collectors[j] = n) =>
              task[collectors[i]].state \in {"none", "returned", "failed"}
    /\ LET i  == task[n].idx + 1
           ms == task[n].metrics \o SubQueryMetrics(n, Plan(config, n)[i], now)
       IN  task' = [task EXCEPT ![n] =
                      IF i = Len(Plan(config, n))
                      THEN [state |-> "returned", idx |-> i, metrics |-> ms, result |-> ms]
                      ELSE [state |-> "running", idx |-> i, metrics |-> ms, result |-> <<>>]]
    /\ UNCHANGED <<other_vars, stop_called, metric_count, config, collectors, running, pc, cycle, now, start_time, all_metrics,
                   queue, send_calls, send_state, prev_failed, sleep_for, log>>

\* collect() of n: the awaited sub-query returns its metrics; after the last
\* sub-query collect() returns the list
SubQueryReturns(n) ==
    /\ pc = "Collecting"
    /\ task[n].state = "running"
    /\ task[n].idx < Len(Plan(config, n))
    /\ LET i  == task[n].idx + 1
           ms == task[n].metrics \o SubQueryMetrics(n, Plan(config, n)[i], now)
       IN  task' = [task EXCEPT ![n] =
                      IF i = Len(Plan(config, n))
                      THEN [state |-> "returned", idx |-> i, metrics |-> ms, result |-> ms]
                      ELSE [state |-> "running", idx |-> i, metrics |-> ms, result |-> <<>>]]
    /\ UNCHANGED <<other_vars, stop_called, metric_count, config, collectors, running, pc, cycle, now, start_time, all_metrics,
                   queue, send_calls, send_state, prev_failed, sleep_for, log>>

\* collect() of n: the awaited sub-query raises; the except clause logs the
\* error and returns []
SubQueryRaises(n) ==
    /\ pc = "Collecting"
    /\ task[n].state = "running"
    /\ task[n].idx < Len(Plan(config, n))
    /\ task' = [task EXCEPT ![n].state = "failed",
                             ![n].result = except_result(task[n].metrics)]
    /\ log' = [log EXCEPT !.collect_error[n] = @ + 1]
    /\ UNCHANGED <<other_vars, stop_called, metric_count, config, collectors, running, pc, cycle, now, start_time, all_metrics,
                   queue, send_calls, send_state, prev_failed, sleep_for>>

\* collect() of n: the awaited sub-query never returns
SubQueryHangs(n) ==
    /\ pc = "Collecting"
    /\ task[n].state = "running"
    /\ task[n].idx < Len(Plan(config, n))
    /\ task' = [task EXCEPT ![n].state = "hung"]
    /\ UNCHANGED <<other_vars, stop_called, metric_count, config, collectors, running, pc, cycle, now, start_time, all_metrics,
                   queue, send_calls, send_state, prev_failed, sleep_for, log>>

\* collect() of n with nothing to query: the loop body never runs
CollectNothing(n) ==
    /\ pc = "Collecting"
    /\ task[n].state = "running"
    /\ Len(Plan(config, n)) = 0
    /\ task' = [task EXCEPT ![n].state = "returned", ![n].result = task[n].metrics]
    /\ UNCHANGED <<other_vars, stop_called, metric_count, config, collectors, running, pc, cycle, now, start_time, all_metrics,
                   queue, send_calls, send_state, prev_failed, sleep_for, log>>

\* a collect() that logs its error and raises it again: gather hands the
\* exception to the orchestrator
gather_results_reraise(cfg, regs, tk) ==
    [i \in 1..Len(Dispatched(cfg, regs)) |->
        IF tk[Dispatched(cfg, regs)[i]].state = "failed"
        THEN [type |-> "Exception", value |-> <<>>]
        ELSE [type |-> "list", value |-> tk[Dispatched(cfg, regs)[i]].result]]

\* asyncio.gather(*tasks, return_exceptions=True): one result per dispatched
\* collector, in dispatch order; a collect() that returned gives its list
gather_results(cfg, regs, tk) ==
    [i \in 1..Len(Dispatched(cfg, regs)) |->
        [type |-> "list", value |-> tk[Dispatched(cfg, regs)[i]].result]]

\* aggregation that stops at the first collector that returned nothing
RECURSIVE Aggregate_until_empty(_)
Aggregate_until_empty(results) ==
    IF results = <<>> \/ Head(results).type # "list" \/ Head(results).value = <<>>
    THEN <<>>
    ELSE Head(results).value \o Aggregate_until_empty(Tail(results))

\* aggregation that puts each result in front of what it has so far
Aggregate_prepend(results) ==
    ConcatAll([i \in 1..Len(results) |->
        IF results[Len(results) + 1 - i].type = "list"
        THEN results[Len(results) + 1 - i].value ELSE <<>>])

\* collect_and_send: the loop over results that extends all_metrics
Aggregate(results) ==
    ConcatAll([i \in 1..Len(results) |->
        IF results[i].type = "list" THEN results[i].value ELSE <<>>])

\* collect_and_send: the "Collector error" records of that loop
AggregateLog(cfg, regs, results, lg) ==
    [lg EXCEPT !.collector_error =
        [n \in NameSet |->
            IF \E i \in 1..Len(results) :
                  Dispatched(cfg, regs)[i] = n /\ results[i].type = "Exception"
            THEN lg.collector_error[n] + 1 ELSE lg.collector_error[n]]]

\* send_metrics called for an empty batch too
should_send_always(batch) == TRUE

\* collect_and_send: if all_metrics
should_send(batch) == batch # <<>>

\* the residual without the clamp at zero
residual_sleep_unclamped(poll, elapsed) == poll - elapsed

\* run(): max(0, poll_interval - elapsed)
residual_sleep(poll, elapsed) == Max(0, poll - elapsed)

\* a count of the different metrics of the batch
returned_count_distinct(batch) == Cardinality(Range(batch))

\* collect_and_send: return len(all_metrics)
returned_count(batch) == Len(batch)

\* a retry sleep shortened by the time the pass has already taken
retry_sleep_residual(elapsed) == Max(0, RetrySleep - elapsed)

\* run(): the except clause's asyncio.sleep(10), whatever the pass took
retry_sleep(elapsed) == RetrySleep

\* a loop without the except clause: the exception ends run()
after_cycle_error_exit == "Stopped"

\* run(): where the except clause leaves the loop, in its sleep before the
\* next pass
after_cycle_error == "Sleeping"

\* run(): what follows collect_and_send, at time t with the cycle's log lg:
\* elapsed is measured and logged and the residual sleep is computed; a
\* poll_interval that is not a number raises there, and the except clause
\* logs the error and sleeps RetrySleep
EndCycle(t, lg) ==
    LET poll == Get(config.poll_interval, [type |-> "int", val |-> DefaultPollInterval])
        done == [lg EXCEPT !.cycle_completed = @ + 1]
    IN  /\ metric_count' = <<returned_count(all_metrics')>>
        /\ IF poll.type = "int"
           THEN /\ pc' = "Sleeping"
                /\ sleep_for' = residual_sleep(poll.val, t - start_time)
                /\ log' = done
           ELSE /\ pc' = after_cycle_error
                /\ sleep_for' = retry_sleep(t - start_time)
                /\ log' = [done EXCEPT !.cycle_error = @ + 1]

\* a wait that returns at the first failure
gather_done_first_failure(tk) ==
    \/ \A n \in NameSet : tk[n].state \in {"none", "returned", "failed"}
    \/ \E n \in NameSet : tk[n].state = "failed"

\* await asyncio.gather(*tasks, return_exceptions=True) returns when every
\* awaitable is done
gather_done(tk) == \A n \in NameSet : tk[n].state \in {"none", "returned", "failed"}

\* gather returns: every dispatched collect() has settled.  The results are
\* aggregated; a non-empty batch is handed to send_metrics, whose produce loop
\* runs up to the flush (or raises when the local queue is full).  An empty
\* batch ends the cycle.
FanIn ==
    /\ pc = "Collecting"
    /\ gather_done(task)
    /\ LET results == gather_results(config, collectors, task)
           batch   == all_metrics \o Aggregate(results)
           lg      == AggregateLog(config, collectors, results, log)
           k       == Accepted(queue, Len(batch))
           records == [i \in 1..k |-> ProduceRecord(kafka_topic, batch[i])]
       IN  /\ all_metrics' = batch
           /\ IF ~should_send(batch)
              THEN /\ UNCHANGED <<queue, send_calls, send_state>>
                   /\ EndCycle(now, [lg EXCEPT !.no_metrics = @ + 1])
              ELSE /\ send_calls' = Append(send_calls, batch)
                   /\ queue' = queue \o records
                   /\ IF k < Len(batch)
                      THEN /\ send_state' = "produce_raised"
                           /\ EndCycle(now, [lg EXCEPT !.send_error = @ + 1,
                                                       !.sent = @ + 1])
                      ELSE /\ send_state' = "flushing"
                           /\ pc' = "Publishing"
                           /\ log' = lg
                           /\ UNCHANGED <<sleep_for, metric_count>>
    /\ UNCHANGED <<other_vars, stop_called, config, collectors, running, cycle, now, start_time, task, prev_failed>>

\* during flush: the broker acknowledges the batch at the head of the queue
BrokerDelivers ==
    /\ pc = "Publishing"
    /\ queue # <<>>
    /\ queue' = SubSeq(queue, HeadBatchLen(queue) + 1, Len(queue))
    /\ UNCHANGED <<other_vars, stop_called, metric_count, config, collectors, running, pc, cycle, now, start_time, task,
                   all_metrics, send_calls, send_state, prev_failed, sleep_for, log>>

\* during flush: the broker reports the batch at the head of the queue as
\* failed; _delivery_callback logs each of its records
BrokerReportsFailure ==
    /\ pc = "Publishing"
    /\ queue # <<>>
    /\ queue' = SubSeq(queue, HeadBatchLen(queue) + 1, Len(queue))
    /\ log' = [log EXCEPT !.delivery_failed = @ + HeadBatchLen(queue)]
    /\ UNCHANGED <<other_vars, stop_called, metric_count, config, collectors, running, pc, cycle, now, start_time, task,
                   all_metrics, send_calls, send_state, prev_failed, sleep_for>>

\* flush returns with the queue drained; send_metrics returns, collect_and_send
\* logs "Collected and sent" and the cycle ends
FlushReturns ==
    /\ pc = "Publishing"
    /\ queue = <<>>
    /\ UNCHANGED all_metrics
    /\ send_state' = "flushed"
    /\ EndCycle(now, [log EXCEPT !.sent = @ + 1])
    /\ UNCHANGED <<other_vars, stop_called, config, collectors, running, cycle, now, start_time, task,
                   queue, send_calls, prev_failed>>

\* flush gives up after FlushTimeout seconds with records still queued; its
\* return value is not read: send_metrics returns as after a drained flush
FlushTimesOut ==
    /\ pc = "Publishing"
    /\ queue # <<>>
    /\ UNCHANGED all_metrics
    /\ now' = now + FlushTimeout
    /\ send_state' = "flush_timeout"
    /\ EndCycle(now', [log EXCEPT !.sent = @ + 1])
    /\ UNCHANGED <<other_vars, stop_called, config, collectors, running, cycle, start_time, task,
                   queue, send_calls, prev_failed>>

\* a send that is not waited for: the loop goes on to its sleep and to the
\* next pass while the flush of the batch is still pending
Wake_during_send ==
    /\ pc \in {"Sleeping", "Publishing"}
    /\ now' = now + sleep_for
    /\ IF running
       THEN /\ StartCycle(now')
            /\ UNCHANGED running
       ELSE /\ pc' = "Stopped"
            /\ UNCHANGED <<running, cycle, start_time, task, all_metrics, send_calls,
                           send_state, prev_failed, sleep_for, log, metric_count>>
    /\ UNCHANGED <<other_vars, stop_called, config, collectors, queue>>

\* asyncio.sleep returns; the loop condition is read: a new cycle starts, or
\* run() returns
Wake ==
    /\ pc = "Sleeping"
    /\ now' = now + sleep_for
    /\ IF running
       THEN /\ StartCycle(now')
            /\ UNCHANGED running
       ELSE /\ pc' = "Stopped"
            /\ UNCHANGED <<running, cycle, start_time, task, all_metrics, send_calls,
                           send_state, prev_failed, sleep_for, log, metric_count>>
    /\ UNCHANGED <<other_vars, stop_called, config, collectors, queue>>

\* a step of the service itself
ServiceStep ==
    \/ Run
    \/ \E n \in NameSet : SubQueryReturns(n)
    \/ \E n \in NameSet : SubQueryRaises(n)
    \/ \E n \in NameSet : CollectNothing(n)
    \/ FanIn
    \/ FlushReturns
    \/ FlushTimesOut
    \/ Wake

\* a step of the environment: the caller of stop(), the clock, a backend that
\* never answers, the broker
EnvironmentStep ==
    \/ Stop
    \/ StopBeforeRun
    \/ Tick
    \/ \E n \in NameSet : SubQueryHangs(n)
    \/ BrokerDelivers
    \/ BrokerReportsFailure

Next == ServiceStep \/ EnvironmentStep

Spec == Init /\ [][Next]_vars

\* the event loop runs whatever is ready: a coroutine whose awaited call has
\* completed is resumed, a sleep or a flush that is over returns.  Nothing is
\* assumed of the environment.
FairSpec == Spec /\ WF_vars(ServiceStep)

-----------------------------------------------------------------------------
(* format_metric called on its own, with and without a timestamp *)

\* a collector service that has been constructed and is not run
CollectorIdle ==
    /\ config = MakeConfig(Seconds(1), {"generic"}, "false", TRUE)
    /\ collectors = init_collectors(config)
    /\ running = FALSE
    /\ pc = "Idle"
    /\ cycle = 0
    /\ now = 0
    /\ start_time = 0
    /\ task = [n \in NameSet |-> NoTask]
    /\ all_metrics = <<>>
    /\ queue = <<>>
    /\ send_calls = <<>>
    /\ send_state = "none"
    /\ prev_failed = FALSE
    /\ sleep_for = 0
    /\ log = NoLog
    /\ metric_count = <<>>
    /\ stop_called = FALSE

\* the collector service but for the clock
collector_but_clock ==
    <<config, collectors, running, pc, cycle, start_time, task, all_metrics, queue,
      send_calls, send_state, prev_failed, sleep_for, log, metric_count, stop_called>>

\* the timestamp argument: left out, or a number of milliseconds
TimestampArgs == {<<>>} \cup {<<ts>> : ts \in 0..MaxTimestamp}

\* the labels argument: an empty dict or one label
LabelArgs == {<<>>, [source |-> "src-01"]}

FmInit == CollectorIdle /\ FmIdle /\ FlaskIdle /\ ApiIdle

\* self.format_metric(name, value, labels, timestamp) on collector self
FmCall(self, name, labels, timestamp) ==
    /\ fm_call' = << [self |-> self, name |-> name, labels |-> labels,
                      timestamp |-> timestamp, at |-> now] >>
    /\ fm_metric' = << format_metric(self, name, "100.0", labels, timestamp, now) >>
    /\ UNCHANGED <<collector_vars, flask_vars, api_vars>>

\* a second passes between two calls
FmTick ==
    /\ now < MaxTime
    /\ now' = now + 1
    /\ UNCHANGED <<collector_but_clock, other_vars>>

FmNext ==
    \/ \E self \in NameSet, name \in {"dcn_a", "dcn_b"},
          labels \in LabelArgs, timestamp \in TimestampArgs :
            FmCall(self, name, labels, timestamp)
    \/ FmTick

FmSpec == FmInit /\ [][FmNext]_vars

-----------------------------------------------------------------------------
(* The Flask application (ci_cd/application/src/app.py).  A request is       *)
(* handled by a worker thread; request_count += 1 and error_count += 1 are  *)
(* each a read of the global followed by a write of the value read plus one. *)

Threads == 1..MaxThreads

\* the view functions, and "unknown" for a path no route matches
Routes ==
    {"home", "health", "ready", "metrics", "get_users", "get_user", "create_user",
     "info", "unknown"}

\* the requests: a route and what the handler finds (get_user: the id is
\* known or not; create_user: the body is complete, incomplete, or not JSON)
Requests ==
    {[route |-> r, finds |-> "ok"] : r \in Routes}
    \cup {[route |-> "get_user", finds |-> "missing"],
          [route |-> "create_user", finds |-> "invalid"],
          [route |-> "create_user", finds |-> "bad_body"]}

\* every view function counted, the probes and /metrics included
counts_request_all(route) == route # "unknown"

\* the view functions that begin with request_count += 1
counts_request(route) == route \in {"home", "get_users", "get_user", "create_user"}

\* the requests whose handling executes error_count += 1: the two error
\* returns of get_user and create_user and the 404 error handler
counts_error(req) ==
    \/ req.route = "unknown"
    \/ req.route = "get_user" /\ req.finds = "missing"
    \/ req.route = "create_user" /\ req.finds = "invalid"

IdleHandler == [req |-> <<>>, pc |-> "idle", tmp |-> 0]

NothingServed ==
    [accepted |-> 0,
     by_route |-> [r \in Routes |-> 0],
     errors   |-> 0,
     reported |-> <<>>]

FlaskInit ==
    /\ CollectorIdle /\ FmIdle /\ ApiIdle
    /\ request_count = 0
    /\ error_count = 0
    /\ handlers = [t \in Threads |-> IdleHandler]
    /\ served = NothingServed

\* no request is being handled
AllIdle == \A t \in Threads : handlers[t].pc = "idle"

\* where the handling of req begins
first_step(req) ==
    IF counts_request(req.route) THEN "load_request_count"
    ELSE IF counts_error(req) THEN "load_error_count"
    ELSE "respond"

\* thread t takes request req
Accept(t, req) ==
    /\ handlers[t].pc = "idle"
    /\ served.accepted < MaxRequests
    /\ handlers' = [handlers EXCEPT ![t] = [req |-> <<req>>, pc |-> first_step(req), tmp |-> 0]]
    /\ served' = [served EXCEPT !.accepted = @ + 1]
    /\ UNCHANGED <<request_count, error_count, collector_vars, fm_vars, api_vars>>

\* thread t takes request req while no other request is being handled
AcceptAlone(t, req) == AllIdle /\ Accept(t, req)

\* request_count += 1: the global is read
LoadRequestCount(t) ==
    /\ handlers[t].pc = "load_request_count"
    /\ handlers' = [handlers EXCEPT ![t].pc = "store_request_count", ![t].tmp = request_count]
    /\ UNCHANGED <<request_count, error_count, served, collector_vars, fm_vars, api_vars>>

\* request_count += 1: the sum is written back
StoreRequestCount(t) ==
    /\ handlers[t].pc = "store_request_count"
    /\ request_count' = handlers[t].tmp + 1
    /\ handlers' = [handlers EXCEPT ![t].pc = IF counts_error(handlers[t].req[1])
                                              THEN "load_error_count" ELSE "respond"]
    /\ UNCHANGED <<error_count, served, collector_vars, fm_vars, api_vars>>

\* error_count += 1: the global is read
LoadErrorCount(t) ==
    /\ handlers[t].pc = "load_error_count"
    /\ handlers' = [handlers EXCEPT ![t].pc = "store_error_count", ![t].tmp = error_count]
    /\ UNCHANGED <<request_count, error_count, served, collector_vars, fm_vars, api_vars>>

\* error_count += 1: the sum is written back
StoreErrorCount(t) ==
    /\ handlers[t].pc = "store_error_count"
    /\ error_count' = handlers[t].tmp + 1
    /\ handlers' = [handlers EXCEPT ![t].pc = "respond"]
    /\ UNCHANGED <<request_count, served, collector_vars, fm_vars, api_vars>>

\* the response is built and sent; /metrics reports the two globals
Respond(t) ==
    /\ handlers[t].pc = "respond"
    /\ LET req == handlers[t].req[1]
       IN  served' = [served EXCEPT
                        !.by_route[req.route] = @ + 1,
                        !.errors = IF counts_error(req) THEN @ + 1 ELSE @,
                        !.reported = IF req.route = "metrics"
                                     THEN << [request_count |-> request_count,
                                              error_count |-> error_count,
                                              after |-> served.by_route] >>
                                     ELSE @]
    /\ handlers' = [handlers EXCEPT ![t] = IdleHandler]
    /\ UNCHANGED <<request_count, error_count, collector_vars, fm_vars, api_vars>>

\* what a handler does once it has the request
HandlerStep ==
    \E t \in Threads :
        \/ LoadRequestCount(t)
        \/ StoreRequestCount(t)
        \/ LoadErrorCount(t)
        \/ StoreErrorCount(t)
        \/ Respond(t)

\* requests handled one after another
FlaskSeqNext ==
    \/ \E t \in Threads, req \in Requests : AcceptAlone(t, req)
    \/ HandlerStep

\* requests handled by the worker threads side by side
FlaskNext ==
    \/ \E t \in Threads, req \in Requests : Accept(t, req)
    \/ HandlerStep

FlaskSeqSpec == FlaskInit /\ [][FlaskSeqNext]_vars

FlaskSpec == FlaskInit /\ [][FlaskNext]_vars

-----------------------------------------------------------------------------
(* The API service's connection globals (dcn_project/services/api/src/      *)
(* main.py).  Coroutine 0 is startup_event; the others are request handlers *)
(* that call get_db_pool or get_redis_client.  A pool or client is named by *)
(* the order of its creation.                                               *)

Callers == 0..MaxCallers

Resources == {"db", "redis"}

\* the module global a resource is kept in
global_of(res) == IF res = "db" THEN db_pool ELSE redis_client

NothingReceived == [db |-> <<>>, redis |-> <<>>]

\* the lifespan protocol runs startup_event before any request is served;
\* without it (a client that does not enter the lifespan) no one runs it
ApiInit ==
    /\ CollectorIdle /\ FmIdle /\ FlaskIdle
    /\ db_pool = <<>>
    /\ redis_client = <<>>
    /\ created = [db |-> 0, redis |-> 0]
    /\ \E first \in {"check", "off"} :
          callers = [c \in Callers |->
                       [pc  |-> IF c = 0 THEN first ELSE "idle",
                        res |-> "db",
                        got |-> NothingReceived]]

\* requests are served once startup_event is over, or when it is never run
Serving == callers[0].pc \in {"done", "off"}

\* a request handler calls get_db_pool() or get_redis_client()
Call(c, res) ==
    /\ c # 0
    /\ Serving
    /\ callers[c].pc = "idle"
    /\ callers' = [callers EXCEPT ![c].pc = "check", ![c].res = res]
    /\ UNCHANGED <<db_pool, redis_client, created, collector_vars, fm_vars, flask_vars>>

\* if <global> is None: the creation is begun and awaited; otherwise the
\* global is returned
CheckNone(c) ==
    /\ callers[c].pc = "check"
    /\ IF global_of(callers[c].res) = <<>>
       THEN callers' = [callers EXCEPT ![c].pc = "creating"]
       ELSE callers' = [callers EXCEPT ![c].pc = "return",
                                       ![c].got[callers[c].res] = global_of(callers[c].res)]
    /\ UNCHANGED <<db_pool, redis_client, created, collector_vars, fm_vars, flask_vars>>

\* the awaited creation completes: the global is assigned and returned
CreateCompletes(c) ==
    /\ callers[c].pc = "creating"
    /\ LET res == callers[c].res
           new == << created[res] + 1 >>
       IN  /\ created' = [created EXCEPT ![res] = @ + 1]
           /\ IF res = "db"
              THEN db_pool' = new /\ UNCHANGED redis_client
              ELSE redis_client' = new /\ UNCHANGED db_pool
           /\ callers' = [callers EXCEPT ![c].pc = "return", ![c].got[res] = new]
    /\ UNCHANGED <<collector_vars, fm_vars, flask_vars>>

\* the awaited creation raises: the global stays None; startup_event fails
\* and the application does not start, a request handler gives up
CreateRaises(c) ==
    /\ callers[c].pc = "creating"
    /\ callers' = [callers EXCEPT ![c].pc = IF c = 0 THEN "failed" ELSE "idle"]
    /\ UNCHANGED <<db_pool, redis_client, created, collector_vars, fm_vars, flask_vars>>

\* the caller has the object; startup_event goes on to get_redis_client
Return(c) ==
    /\ callers[c].pc = "return"
    /\ callers' = [callers EXCEPT
                     ![c].pc  = IF c # 0 THEN "idle"
                                ELSE IF callers[c].res = "db" THEN "check" ELSE "done",
                     ![c].res = IF c = 0 THEN "redis" ELSE @]
    /\ UNCHANGED <<db_pool, redis_client, created, collector_vars, fm_vars, flask_vars>>

ApiNext ==
    \/ \E c \in Callers, res \in Resources : Call(c, res)
    \/ \E c \in Callers : CheckNone(c)
    \/ \E c \in Callers : CreateCompletes(c)
    \/ \E c \in Callers : CreateRaises(c)
    \/ \E c \in Callers : Return(c)

ApiSpec == ApiInit /\ [][ApiNext]_vars

-----------------------------------------------------------------------------
(* Properties *)

\* fan-in has returned for the current cycle
AfterFanIn == pc \in {"Publishing", "Sleeping", "Stopped"}

\* the metrics of a batch that carry collector name n
OfCollector(batch, n) == SelectSeq(batch, LAMBDA m : m.collector = n)

\* the time the current cycle has taken so far
Elapsed == now - start_time

\* C1 -- fan-in isolation: once fan-in has returned, for every pair of
\* dispatched collectors A and B with A's collect() failed and B's returned,
\* the batch holds exactly the metrics B returned under B's name and no metric
\* under A's name.
C1_FanInIsolation ==
    AfterFanIn =>
        \A a, b \in NameSet :
            (task[a].state = "failed" /\ task[b].state = "returned") =>
                /\ OfCollector(all_metrics, b) = task[b].result
                /\ OfCollector(all_metrics, a) = <<>>

\* C1 witness: a batch is being published in a cycle where one collector
\* failed after it had gathered metrics and another returned metrics
C1_Witness ==
    /\ pc = "Publishing"
    /\ \E a, b \in NameSet :
          /\ task[a].state = "failed"
          /\ task[a].metrics # <<>>
          /\ task[b].state = "returned"
          /\ task[b].result # <<>>
          /\ all_metrics = task[b].result

\* C2 -- every dispatched collect() is bounded by its collector's timeout:
\* when gather is waiting only for collectors that never return, and each of
\* them has been pending for its configured timeout or longer, the service
\* can take a step (record the timeout, let fan-in return).
C2_TimeoutBoundsCollect ==
    ( /\ pc = "Collecting"
      /\ \E n \in NameSet : task[n].state = "hung"
      /\ \A n \in NameSet :
            /\ task[n].state \in {"none", "returned", "failed", "hung"}
            /\ task[n].state = "hung" => Elapsed >= collector_timeout(config, n) )
    => ENABLED ServiceStep

\* C3 -- sub-query isolation: a collect() whose sub-query failed returns the
\* metrics its earlier sub-queries had gathered.
C3_SubQueryIsolation ==
    \A n \in NameSet :
        task[n].state = "failed" => task[n].result = task[n].metrics

\* C4 -- no retry carry-over: after a cycle whose send failed, the batch of
\* the next cycle consists only of what the collectors of that next cycle
\* returned: as many metrics as they returned, none stamped before the cycle
\* started.
C4_NoRetryCarryOver ==
    (prev_failed /\ AfterFanIn) =>
        /\ Len(all_metrics)
             = Len(ConcatAll([i \in 1..Len(CollectorNames) |->
                                 task[CollectorNames[i]].result]))
        /\ \A i \in 1..Len(all_metrics) :
              all_metrics[i].timestamp >= WallMillis(start_time)

\* C4 witness: the send of the preceding cycle failed, its records are still
\* queued, and the next cycle hands over a non-empty batch
C4_Witness ==
    /\ prev_failed
    /\ pc = "Publishing"
    /\ all_metrics # <<>>
    /\ Len(queue) > Len(all_metrics)

\* the records of the current cycle's batch that are still queued
QueuedOfCycle ==
    {i \in 1..Len(queue) :
        \E j \in 1..Len(all_metrics) :
            queue[i] = ProduceRecord(kafka_topic, all_metrics[j])}

\* C5 -- a failed batch is dropped: once send_metrics has returned from a
\* failed send, no record of that cycle's batch is still buffered in the
\* producer.
C5_FailedBatchDropped ==
    (pc \in {"Sleeping", "Stopped"} /\ send_calls # <<>> /\ SendFailed)
        => QueuedOfCycle = {}

\* C6 -- send reports failure: a cycle whose flush timed out with records
\* unacknowledged, or for which the broker reported a delivery failure, is
\* not logged as "Collected and sent".
C6_SendReportsFailure ==
    ( /\ pc \in {"Sleeping", "Stopped"}
      /\ \/ send_state = "flush_timeout"
         \/ log.delivery_failed > 0 )
    => log.sent = 0

\* the configured cadence, when it is a number
Cadence == Get(config.poll_interval, [type |-> "int", val |-> DefaultPollInterval])

\* C7 -- residual sleep: with a numeric cadence C, the sleep that ends a cycle
\* which took t seconds is C - t when t < C and zero when t >= C; it is never
\* negative.
C7_ResidualSleep ==
    (pc = "Sleeping" /\ Cadence.type = "int") =>
        /\ sleep_for >= 0
        /\ Elapsed < Cadence.val => sleep_for = Cadence.val - Elapsed
        /\ Elapsed >= Cadence.val => sleep_for = 0

\* C7 witness: a cycle that overran its cadence sleeps zero seconds
C7_Witness ==
    /\ pc = "Sleeping"
    /\ Cadence.type = "int"
    /\ Elapsed > Cadence.val
    /\ sleep_for = 0

\* the configuration does not enable collector n
NotEnabled(n) ==
    \/ config.collectors[n] = <<>>
    \/ config.collectors[n][1].enabled # <<TRUE>>

\* C8 -- a collector that the configuration does not enable is never
\* dispatched and none of its metrics is in any batch or produced record.
C8_DisabledNeverDispatched ==
    \A n \in NameSet :
        NotEnabled(n) =>
            /\ task[n].state = "none"
            /\ OfCollector(all_metrics, n) = <<>>
            /\ \A i \in 1..Len(queue) : queue[i].value.utf8[5][2] # n

\* C8 witness: a batch is being published under a configuration that has an
\* entry with enabled False
C8_Witness ==
    /\ pc = "Publishing"
    /\ all_metrics # <<>>
    /\ \E n \in NameSet :
          /\ config.collectors[n] # <<>>
          /\ config.collectors[n][1].enabled = <<FALSE>>
          /\ config.collectors[n][1].targets # <<>>

\* what the collectors that returned in this cycle returned, in registration
\* order
ReturnedMetrics ==
    ConcatAll([i \in 1..Len(CollectorNames) |->
        IF task[CollectorNames[i]].state = "returned"
        THEN task[CollectorNames[i]].result ELSE <<>>])

\* C9 -- one send per cycle: in a cycle whose collectors returned metrics,
\* send_metrics is called exactly once, with the full batch: the metrics every
\* collector that returned has returned, and nothing else.
C9_SingleSendOfFullBatch ==
    (AfterFanIn /\ ReturnedMetrics # <<>>) =>
        /\ all_metrics = ReturnedMetrics
        /\ send_calls = <<ReturnedMetrics>>

\* C9 witness: two collectors returned metrics and one send call carries both
C9_Witness ==
    /\ pc = "Sleeping"
    /\ Len(send_calls) = 1
    /\ \E a, b \in NameSet :
          /\ a # b
          /\ OfCollector(send_calls[1], a) # <<>>
          /\ OfCollector(send_calls[1], b) # <<>>

\* C10 -- an empty cycle completes normally: when fan-in yields no metrics,
\* send_metrics is not called, nothing is produced, "No metrics collected" is
\* logged once, the cycle is logged as completed and, the cadence being a
\* number, no cycle error is logged and the sleep is the residual one.
C10_EmptyCycleCompletes ==
    (pc \in {"Sleeping", "Stopped"} /\ all_metrics = <<>>) =>
        /\ send_calls = <<>>
        /\ send_state = "none"
        /\ log.no_metrics = 1
        /\ log.sent = 0
        /\ log.cycle_completed = 1
        /\ Cadence.type = "int" => log.cycle_error = 0
        /\ (Cadence.type = "int" /\ pc = "Sleeping") =>
              sleep_for = Max(0, Cadence.val - Elapsed)

\* C10 witness: every dispatched collector failed and the cycle is in its
\* residual sleep
C10_Witness ==
    /\ pc = "Sleeping"
    /\ Cadence.type = "int"
    /\ all_metrics = <<>>
    /\ \E n \in NameSet : task[n].state = "failed"
    /\ \A n \in NameSet : task[n].state \in {"none", "failed"}

\* the failure records of the current cycle that name collector n: those of
\* its own except clause and those of the orchestrator's aggregation
FailureRecords(n) == log.collect_error[n] + log.collector_error[n]

\* C11 -- a failure is recorded exactly once: in every cycle a collector whose
\* collect() failed has exactly one failure record, a collector that did not
\* fail has none; the failure does not hold up the cycle: once every
\* dispatched collector has settled fan-in can return, and the cycle that
\* ended is logged as completed, once.
C11_FailureLoggedOnce ==
    /\ \A n \in NameSet :
          FailureRecords(n) = IF task[n].state = "failed" THEN 1 ELSE 0
    /\ ( /\ pc = "Collecting"
         /\ \A n \in NameSet : task[n].state \in {"none", "returned", "failed"} )
       => ENABLED FanIn
    /\ pc \in {"Sleeping", "Stopped"} => log.cycle_completed = 1

\* C11 witness: a cycle has ended in which one collector failed and another
\* returned metrics, which were sent
C11_Witness ==
    /\ pc = "Sleeping"
    /\ log.sent = 1
    /\ \E a, b \in NameSet :
          /\ task[a].state = "failed"
          /\ FailureRecords(a) = 1
          /\ task[b].state = "returned"
          /\ OfCollector(all_metrics, b) # <<>>

\* C12 -- no duplicate emission: the batch handed to the publisher holds no
\* two metrics of the same collector with the same name and the same labels.
C12_NoDuplicateEmission ==
    AfterFanIn =>
        \A i, j \in 1..Len(all_metrics) :
            i < j =>
                ~ ( /\ all_metrics[i].collector = all_metrics[j].collector
                    /\ all_metrics[i].name = all_metrics[j].name
                    /\ all_metrics[i].labels = all_metrics[j].labels )

\* a send_metrics call of the current cycle has been entered and has not
\* returned
SendInProgress == send_state = "flushing"

\* C13 -- cycles never overlap: a cycle is started only when no send_metrics
\* call is still in progress, and a send_metrics call is entered only when
\* none is in progress and no collect() of the cycle is still pending; a
\* cycle makes at most one such call.
C13_CyclesNeverOverlap ==
    [][ /\ cycle' # cycle => ~SendInProgress
        /\ send_calls' # send_calls /\ send_calls' # <<>> =>
              /\ ~SendInProgress
              /\ Len(send_calls') = 1
              /\ \A n \in NameSet : task[n].state \notin {"running", "hung"}
        /\ SendInProgress' => pc' = "Publishing" ]_vars

\* C13 witness: the collectors of the second cycle are running after the
\* send of the first cycle has returned, with records of it still unacknowledged
C13_Witness ==
    /\ cycle = 2
    /\ pc = "Collecting"
    /\ prev_failed
    /\ queue # <<>>
    /\ \E n \in NameSet : task[n].state = "running"

\* stop() has been called since run() was entered
StopSignalled == pc # "Idle" /\ ~running

\* C14 -- stop is cooperative: the call of stop() changes nothing but the
\* running flag (no collect() is cancelled, no send is abandoned, run() stays
\* where it is); after it no cycle is started and run() returns only from its
\* sleep; and when run() has reached its sleep or returned, the cycle in which
\* stop() was signalled has gone through fan-in and, if it collected metrics,
\* through its one send.
C14_StopIsCooperative ==
    /\ [][ /\ (running /\ ~running') =>
                UNCHANGED <<pc, cycle, task, all_metrics, queue, send_calls,
                            send_state, sleep_for, log>>
           /\ StopSignalled => cycle' = cycle
           /\ (StopSignalled /\ pc' = "Stopped" /\ pc # "Stopped") => pc = "Sleeping"
         ]_vars
    /\ []( (StopSignalled /\ pc \in {"Sleeping", "Stopped"}) =>
              /\ \A n \in NameSet : task[n].state \in {"none", "returned", "failed"}
              /\ all_metrics = ReturnedMetrics
              /\ log.cycle_completed = 1
              /\ IF all_metrics = <<>> THEN send_calls = <<>>
                 ELSE send_calls = <<all_metrics>> /\ ~SendInProgress )

\* C14 witness: stop() was signalled between dispatch and the end of
\* publishing; the batch was collected and handed to the publisher all the
\* same and the broker has acknowledged all of it
C14_Witness ==
    /\ StopSignalled
    /\ pc = "Publishing"
    /\ cycle = 1
    /\ send_calls = <<all_metrics>>
    /\ all_metrics # <<>>
    /\ queue = <<>>

\* C15 -- Stopped is reachable from every state of the loop: once stop() has
\* been signalled, run() eventually returns, whatever the collectors do.
C15_StopTerminates == StopSignalled ~> (pc = "Stopped")

\* the records of a cycle that collected metrics, sent them and ended, as the
\* code emits them when nothing went wrong
LogOfPlainSend == [NoLog EXCEPT !.sent = 1, !.cycle_completed = 1]

\* the current cycle took longer than the cadence
Overrun == Cadence.type = "int" /\ Elapsed > Cadence.val

\* C16 -- overrun is observable: a cycle that took longer than the cadence
\* sleeps zero seconds and leaves a record of the overrun, so that its log
\* records are not those of a cycle that sent its batch within the cadence.
C16_OverrunObservable ==
    (pc = "Sleeping" /\ Overrun) =>
        /\ sleep_for = 0
        /\ log # LogOfPlainSend

\* C16 witness: a cycle that sent its batch within the cadence, with the
\* records the overrunning cycle is compared to
C16_Witness ==
    /\ pc = "Sleeping"
    /\ Cadence.type = "int"
    /\ Elapsed < Cadence.val
    /\ send_state = "flushed"
    /\ log = LogOfPlainSend

\* C17 -- no failure ends the loop: run() returns only after stop(); whatever
\* failed in a cycle, the cycle ends in the loop's sleep, and while stop() has
\* not been called the only way out of that sleep is the start of the next
\* cycle, which is then possible.
C17_NoFailureEndsLoop ==
    /\ []( pc = "Stopped" => ~running )
    /\ []( (running /\ pc = "Sleeping" /\ cycle < MaxCycles) => ENABLED Wake )
    /\ [][ /\ (pc # "Stopped" /\ pc' = "Stopped") => (pc = "Sleeping" /\ ~running)
           /\ (running /\ pc = "Sleeping" /\ pc' # "Sleeping") =>
                 (pc' = "Collecting" /\ cycle' = cycle + 1 /\ running')
           /\ (running /\ pc \in {"Collecting", "Publishing"} /\ pc' # pc) =>
                 pc' \in {"Publishing", "Sleeping"} ]_vars

\* C17 witness: a second cycle is running after a first one in which the send
\* failed and the pass raised
C17_Witness ==
    /\ running
    /\ cycle = 2
    /\ pc = "Collecting"
    /\ prev_failed
    /\ Cadence.type # "int"
    /\ now >= RetrySleep

\* the position of collector n in self.collectors
RegIndex(n) == CHOOSE i \in 1..Len(collectors) : collectors[i] = n

\* C18 -- batch ordering: the batch lists the metrics of an earlier
\* registered collector before those of a later registered one, and the
\* metrics of one collector in the order in which that collector emitted
\* them, whichever collector finished first.
C18_BatchOrder ==
    AfterFanIn =>
        /\ \A i, j \in 1..Len(all_metrics) :
              i < j => RegIndex(all_metrics[i].collector)
                         <= RegIndex(all_metrics[j].collector)
        /\ \A n \in NameSet : OfCollector(all_metrics, n) = task[n].result

\* C18 witness: the collector registered first finished last (its metrics are
\* stamped later than those of the collector registered after it) and its
\* metrics still come first in the batch
C18_Witness ==
    /\ pc = "Publishing"
    /\ Len(all_metrics) >= 2
    /\ LET first == all_metrics[1]
           last  == all_metrics[Len(all_metrics)]
       IN  /\ first.collector # last.collector
           /\ RegIndex(first.collector) < RegIndex(last.collector)
           /\ first.timestamp > last.timestamp

\* C19 -- concurrent dispatch: a cycle starts the collect() of every
\* dispatched collector together, and from then on each collect() that is
\* still running can take its next step whatever state the other collectors
\* are in.
C19_ConcurrentDispatch ==
    /\ [][ cycle' # cycle =>
              \A n \in NameSet :
                  task'[n].state =
                      IF n \in Range(Dispatched(config, collectors))
                      THEN "running" ELSE "none" ]_vars
    /\ []( \A n \in NameSet :
              (pc = "Collecting" /\ task[n].state = "running") =>
                  ENABLED (SubQueryReturns(n) \/ CollectNothing(n)) )

\* C19 witness: a collector is part of the way through its sub-queries and a
\* collector registered after it has meanwhile started and completed a
\* sub-query of its own
C19_Witness ==
    /\ pc = "Collecting"
    /\ \E a, b \in NameSet :
          /\ task[a].state = "running" /\ task[a].idx >= 1
          /\ task[b].state \in {"running", "returned"} /\ task[b].idx >= 1
          /\ RegIndex(a) < RegIndex(b)

\* C20 -- fan-in joins on all: once fan-in has returned (a send was made or
\* skipped) every dispatched collect() of the cycle has settled, as returned
\* or failed, and within a cycle a collect() that is pending is never
\* cancelled: it stays pending or settles.
C20_FanInJoinsAll ==
    /\ []( (AfterFanIn \/ send_calls # <<>> \/ log.no_metrics > 0) =>
              \A n \in NameSet :
                  IF n \in Range(Dispatched(config, collectors))
                  THEN task[n].state \in {"returned", "failed"}
                  ELSE task[n].state = "none" )
    /\ [][ \A n \in NameSet :
              (cycle' = cycle /\ task[n].state \in {"running", "hung"}) =>
                  task'[n].state \in {"running", "hung", "returned", "failed"} ]_vars

\* C20 witness: one collector failed part of the way through, another went
\* on for a second and returned its metrics, and only then was the batch sent
C20_Witness ==
    /\ pc = "Publishing"
    /\ \E a, b \in NameSet :
          /\ task[a].state = "failed"
          /\ task[a].idx >= 1
          /\ task[b].state = "returned"
          /\ task[b].result # <<>>
          /\ task[b].result[Len(task[b].result)].timestamp > WallMillis(start_time)
          /\ send_calls = <<task[b].result>>

\* the label keys the collectors use
LabelKeys == {"cluster", "node", "type", "operation", "aggregate", "grid", "source"}

\* m is a well-formed metric of collector n: a name, a timestamp, labels that
\* are a mapping from keys to strings, and n as its collector
WellFormed(m, n) ==
    /\ m.name \in STRING /\ m.name # ""
    /\ m.timestamp \in Nat
    /\ DOMAIN m.labels \subseteq LabelKeys
    /\ \A k \in DOMAIN m.labels : m.labels[k] \in STRING
    /\ m.collector = n

\* C21 -- metric well-formedness: every metric a collector has gathered is
\* well formed and carries that collector's name; every metric of the batch
\* is, unchanged, a metric that the collector it names returned, and the
\* batch handed to send_metrics is that batch.
C21_MetricWellFormed ==
    /\ \A n \in NameSet :
          \A i \in 1..Len(task[n].metrics) : WellFormed(task[n].metrics[i], n)
    /\ AfterFanIn =>
          /\ \A i \in 1..Len(all_metrics) :
                \E n \in NameSet :
                    /\ WellFormed(all_metrics[i], n)
                    /\ \E j \in 1..Len(task[n].result) :
                          task[n].result[j] = all_metrics[i]
          /\ \A k \in 1..Len(send_calls) : send_calls[k] = all_metrics

\* C21 witness: a batch with the metrics of two collectors, stamped at
\* different times, has been handed to the publisher
C21_Witness ==
    /\ pc = "Publishing"
    /\ send_calls = <<all_metrics>>
    /\ \E i, j \in 1..Len(all_metrics) :
          /\ all_metrics[i].collector # all_metrics[j].collector
          /\ all_metrics[i].timestamp # all_metrics[j].timestamp
          /\ DOMAIN all_metrics[i].labels # DOMAIN all_metrics[j].labels

\* C22 -- the timestamp is caller-overridable: a metric made with a timestamp
\* argument, zero included, carries that timestamp; a metric made without one
\* carries the wall clock of the call in milliseconds.
C22_TimestampOverride ==
    fm_call # <<>> =>
        fm_metric[1].timestamp =
            IF fm_call[1].timestamp # <<>> THEN fm_call[1].timestamp[1]
            ELSE WallMillis(fm_call[1].at)

\* C22 witness: a call that passed a timestamp other than the wall clock and
\* got it back
C22_Witness ==
    /\ fm_call # <<>>
    /\ fm_call[1].timestamp # <<>>
    /\ fm_call[1].timestamp[1] # WallMillis(fm_call[1].at)
    /\ fm_metric[1].timestamp = fm_call[1].timestamp[1]

\* the metric name inside the serialized value of a record
NameIn(rec) == rec.value.utf8[1][2]

\* C23 -- serialization: a send_metrics call appends to the producer's queue,
\* behind what is queued already, one record per metric in batch order (all
\* of the batch unless produce raised), each with the metric's encoded name
\* as key and the metric's own serialization as value; records with the same
\* metric name have the same key.
C23_SerializationKey ==
    /\ [][ (send_calls' # send_calls /\ send_calls' # <<>>) =>
              LET b == send_calls'[Len(send_calls')]
                  k == Len(queue') - Len(queue)
              IN  /\ k >= 0 /\ k <= Len(b)
                  /\ send_state' = "flushing" => k = Len(b)
                  /\ SubSeq(queue', 1, Len(queue)) = queue
                  /\ \A i \in 1..k :
                        /\ queue'[Len(queue) + i].topic = kafka_topic
                        /\ queue'[Len(queue) + i].key = utf8(b[i].name)
                        /\ queue'[Len(queue) + i].value = utf8(json_dumps(b[i])) ]_vars
    /\ []( \A i, j \in 1..Len(queue) :
              NameIn(queue[i]) = NameIn(queue[j]) => queue[i].key = queue[j].key )

\* C23 witness: the records of a batch are queued in batch order, among them
\* two of one series and two of different series
C23_Witness ==
    /\ pc = "Publishing"
    /\ Len(queue) = Len(all_metrics)
    /\ \A i \in 1..Len(queue) : queue[i].key = utf8(all_metrics[i].name)
    /\ \E i, j \in 1..Len(queue) : i < j /\ queue[i].key = queue[j].key
    /\ \E i, j \in 1..Len(queue) : queue[i].key # queue[j].key

\* the requests to the four counted routes among the responses sent
CountedServed(by_route) ==
    by_route["home"] + by_route["get_users"] + by_route["get_user"] + by_route["create_user"]

\* C24: with requests handled one after another, request_count never
\* decreases; between requests it equals the number of requests served on
\* '/', GET /api/users, GET /api/users/<id> and POST /api/users, so each of
\* them adds exactly one and /metrics reports that number; a handler of
\* /health, /ready, /metrics or /api/info never changes it.
C24_RequestCountSequential ==
    /\ [][ /\ request_count' >= request_count
           /\ request_count' <= request_count + 1
           /\ \A t \in DOMAIN handlers :
                 ( /\ handlers[t].pc # "idle"
                   /\ t \in DOMAIN handlers' /\ handlers'[t] # handlers[t]
                   /\ handlers[t].req[1].route \in {"health", "ready", "metrics", "info"} )
                 => request_count' = request_count ]_vars
    /\ []( (handlers # <<>> /\ AllIdle) =>
              /\ request_count = CountedServed(served.by_route)
              /\ served.reported # <<>> =>
                    served.reported[1].request_count = CountedServed(served.reported[1].after) )

\* two counted requests and a probe served, then /metrics asked
C24_Witness ==
    /\ handlers # <<>> /\ AllIdle
    /\ served.accepted = MaxRequests
    /\ served.reported # <<>>
    /\ served.reported[1].request_count = MaxRequests - 1
    /\ served.by_route["get_user"] = 1
    /\ request_count = MaxRequests - 1

\* C29: with handlers running side by side in several threads, once every
\* handler has finished request_count equals the number of counted requests
\* served and error_count the number of error responses counted.
C29_NoLostUpdate ==
    (handlers # <<>> /\ AllIdle) =>
        /\ request_count = CountedServed(served.by_route)
        /\ error_count = served.errors

\* two threads have read the same request_count and are about to write it
C29_Witness ==
    /\ handlers # <<>>
    /\ \E t, u \in Threads :
          /\ t # u
          /\ handlers[t].pc = "store_request_count"
          /\ handlers[u].pc = "store_request_count"
          /\ handlers[t].tmp = handlers[u].tmp

\* C30: get_db_pool and get_redis_client each create at most one object over
\* the life of the process, whatever the interleaving of their callers, and
\* every caller receives the same object.
C30_AtMostOnePool ==
    callers # <<>> =>
        \A res \in Resources :
            /\ created[res] <= 1
            /\ \A c, d \in Callers :
                  (callers[c].got[res] # <<>> /\ callers[d].got[res] # <<>>)
                      => callers[c].got[res] = callers[d].got[res]

\* two request coroutines are both awaiting the creation of the pool
C30_Witness ==
    /\ callers # <<>>
    /\ \E c, d \in Callers :
          /\ c # d
          /\ callers[c].pc = "creating" /\ callers[c].res = "db"
          /\ callers[d].pc = "creating" /\ callers[d].res = "db"

\* the pass of the loop raised and run() is in the sleep of its except clause
InRetrySleep == pc = "Sleeping" /\ log.cycle_error > 0

\* C25 -- when an exception reaches the except clause of run(), the loop logs
\* it once and sleeps RetrySleep seconds, whatever the cadence and whatever
\* time the pass has taken: that pass has no residual sleep.  When the sleep
\* is over the next cycle starts if running is still true, and run() returns
\* otherwise.
C25_FixedRetrySleep ==
    /\ []( InRetrySleep => (log.cycle_error = 1 /\ sleep_for = RetrySleep) )
    /\ [][ (InRetrySleep /\ pc' # pc) =>
              /\ now' = now + RetrySleep
              /\ IF running
                 THEN pc' = "Collecting" /\ cycle' = cycle + 1 /\ start_time' = now'
                 ELSE pc' = "Stopped" /\ cycle' = cycle ]_vars

\* C25 witness: the second cycle began RetrySleep seconds after a first pass
\* that took a second and then raised
C25_Witness ==
    /\ running
    /\ cycle = 2
    /\ pc = "Collecting"
    /\ Cadence.type # "int"
    /\ start_time = 1 + RetrySleep
    /\ now = start_time

\* C26 -- once stop() has been called no cycle starts.  stop() only clears
\* running and only run() sets it, so a cycle that is under way with running
\* set after a stop() is a cycle that began after that stop().
C26_NoCycleAfterStop ==
    stop_called => ~(running /\ pc \in {"Collecting", "Publishing", "Sleeping"})

\* stop() has been called on the constructed service and run() is yet to be
\* entered
C26_Witness == stop_called /\ pc = "Idle" /\ ~running /\ ENABLED Run

\* the collectors whose configuration entry exists and has enabled True
EnabledInConfig ==
    {n \in NameSet : config.collectors[n] # <<>> /\ config.collectors[n][1].enabled = <<TRUE>>}

\* C27 -- registration: the registered collectors are those whose entry
\* exists with enabled True, in the code's order and once each (an entry
\* without 'enabled' is not registered); every registered collector has
\* self.enabled true, so what a cycle dispatches is the registered list; and
\* no step changes the list or the configuration it was made from.
C27_RegistrationInvariant ==
    /\ []( /\ collectors = SelectSeq(CollectorNames, LAMBDA n : n \in EnabledInConfig)
           /\ \A n \in Range(collectors) : collector_enabled(config, n)
           /\ Dispatched(config, collectors) = collectors
           /\ pc = "Collecting" =>
                 {n \in NameSet : task[n].state # "none"} = Range(collectors) )
    /\ [][ collectors' = collectors /\ config' = config ]_vars

\* C27 witness: the second cycle is collecting with one collector registered
\* while another entry has no 'enabled' key and a third has enabled False or
\* is missing from the configuration
C27_Witness ==
    /\ pc = "Collecting"
    /\ cycle = 2
    /\ Len(collectors) = 1
    /\ \E n \in NameSet :
          /\ config.collectors[n] # <<>>
          /\ config.collectors[n][1].enabled = <<>>
          /\ config.collectors[n][1].targets # <<>>
          /\ task[n].state = "none"
    /\ \E n \in Range(collectors) : task[n].state = "running"

\* what gather handed to collect_and_send in the current cycle
Outcomes == gather_results(config, collectors, task)

====
